---------------------------- MODULE Spec2Model ----------------------------
(***************************************************************************)
(* Operator console of the synthesizer fleet: the control panel            *)
(* (core/frontend/static/js/control_panel.js).                             *)
(*                                                                         *)
(* The page is single-threaded and event driven.  A handler runs until it  *)
(* awaits a network call; the request is then in flight, and the rest of   *)
(* the handler (its continuation) runs when the response arrives.  One     *)
(* step of the model is one such run: a user event up to its first await,  *)
(* or the arrival of a response up to the next await of that handler.      *)
(***************************************************************************)
EXTENDS Integers, FiniteSets, Bags, TLC

(* ------------------------------ bounds --------------------------------- *)

\* ids the inventory service ever assigns (1 and 2 exist at start)
MaxId == 3
\* requests that may be in flight at the same time
MaxInFlight == 2
\* cap of the error counter
MaxErrors == 1
\* requests the page sends in one run, the initial list request included
MaxRequests == 6
\* loadMonitoringData calls that may await their answers at the same time
MaxLoads == 2
\* intervals that may be live at the same time
MaxTimers == 2

(* ------------------------------ values --------------------------------- *)

\* control_panel.js:10  let selectedId = null  (every test on it is !selectedId)
Null == 0

Ids == 1..MaxId

\* the three shapes of mutating-command handlers: a quick command button
\* (SYNC, RESET_PHASE_COUNTER, CLEAR_STATUS), doSet and doStep
QuickCommands == {"SYNC"}
SetCommands == {"SET_FREQ"}
StepCommands == {"STEP_FREQ"}
MutatingCommands == QuickCommands \cup SetCommands \cup StepCommands

VARIABLES
    server,          \* the remote inventory: id -> "none" | "on" | "off" | "gone"
    devices,         \* let devices = []       id -> "none" | "on" | "off"
    selectedId,      \* let selectedId = null
    lastPollOkById,  \* let lastPollOkById = new Map(): key -> get(key) !== false
    errorsCount,     \* let errorsCount = 0
    deviceModalMode, \* "create" | "edit"
    deviceModalId,
    modalOpen,       \* !el("device-backdrop").hidden
    formError,       \* the box device-form-error shows an error
    conn,            \* the connection indicator: [dot, text], text by its kind
    ctrlEnabled,     \* the command controls other than btn-refresh are enabled
    refreshEnabled,  \* !el("btn-refresh").disabled
    statusView,      \* Null: no data shown; id: data of a GET_STATUS sent to id
    lastCommand,     \* the last-command log, by the kind of its payload
    inflight,        \* bag of the requests in flight, each with its continuation
    sent,            \* number of requests sent so far
    uncaught,        \* the last handler run ended in an unhandled rejection
    data,            \* a status payload: data of a GET_STATUS or of a snapshot
    stSre,           \* control panel: st-sre-badge and the six sre-* texts
    stFields,        \* control panel: the st-* and pll-* texts, pll-badge
    monSre,          \* monitoring: the register cell of the payload's row
    monDevices,      \* monitoring.js: let devices = []   id -> "none"|"on"|"off"
    monSelectedId,   \* monitoring.js: let selectedId = null
    limit,           \* monitoring.js: let limit = 200
    autoTimer,       \* monitoring.js: let autoTimer = null
    timers,          \* the browser's live intervals, by the id setInterval gave
    autoChecked,     \* el("mon-auto").checked
    monListing,      \* loadDevices of monitoring.js awaits the list
    loads,           \* bag of the loadMonitoringData calls awaiting Promise.all
    tables,          \* what both history tables show: [device, limit]
    detail           \* mon-detail-title, by its kind

vars == << server, devices, selectedId, lastPollOkById, errorsCount,
           deviceModalMode, deviceModalId, modalOpen, formError, conn,
           ctrlEnabled, refreshEnabled, statusView, lastCommand, inflight,
           sent, uncaught, data, stSre, stFields, monSre, monDevices, monSelectedId, limit,
           autoTimer, timers, autoChecked, monListing, loads, tables, detail >>

\* the variables of the monitoring page
monVars == << monDevices, monSelectedId, limit, autoTimer, timers, autoChecked,
              monListing, loads, tables, detail >>

\* the variables of the status decoding
decodeVars == << data, stSre, stFields, monSre >>

\* the page's mutable state as one value, threaded through the functions
Cur ==
    [ server |-> server, devices |-> devices, selectedId |-> selectedId,
      lastPollOkById |-> lastPollOkById, errorsCount |-> errorsCount,
      deviceModalMode |-> deviceModalMode, deviceModalId |-> deviceModalId,
      modalOpen |-> modalOpen, formError |-> formError, conn |-> conn, ctrlEnabled |-> ctrlEnabled,
      refreshEnabled |-> refreshEnabled, statusView |-> statusView,
      lastCommand |-> lastCommand, inflight |-> inflight, sent |-> sent,
      uncaught |-> FALSE ]

Commit(S) ==
    /\ server' = S.server
    /\ devices' = S.devices
    /\ selectedId' = S.selectedId
    /\ lastPollOkById' = S.lastPollOkById
    /\ errorsCount' = S.errorsCount
    /\ deviceModalMode' = S.deviceModalMode
    /\ deviceModalId' = S.deviceModalId
    /\ modalOpen' = S.modalOpen
    /\ formError' = S.formError
    /\ conn' = S.conn
    /\ ctrlEnabled' = S.ctrlEnabled
    /\ refreshEnabled' = S.refreshEnabled
    /\ statusView' = S.statusView
    /\ lastCommand' = S.lastCommand
    /\ inflight' = S.inflight
    /\ sent' = S.sent
    /\ uncaught' = S.uncaught

(* ----------------------------- numbers --------------------------------- *)

\* A JavaScript number as far as the page's checks tell numbers apart:
\* kind "finite", "nan" or "inf" (+Infinity); of a finite one, floor is
\* Math.floor of it and frac says that it is not an integer.
Num(kind, floor, frac) == [kind |-> kind, floor |-> floor, frac |-> frac]

Finite(floor, frac) == Num("finite", floor, frac)

NaN == Num("nan", 0, FALSE)

Infinity == Num("inf", 0, FALSE)

\* no number in the body: params {} of a quick command or of GET_STATUS
NoNumber == Num("none", 0, FALSE)

\* Number(text), on the texts the model types into inputs and attributes:
\* the empty and the blank text convert to 0, a decimal literal to its
\* value, "Infinity" to Infinity, anything else to NaN
Number(raw) ==
    CASE raw \in {"", " ", "0"} -> Finite(0, FALSE)
      [] raw = "0.001"          -> Finite(0, TRUE)
      [] raw = "1"              -> Finite(1, FALSE)
      [] raw = "-1"             -> Finite(-1, FALSE)
      [] raw = "10.5"           -> Finite(10, TRUE)
      [] raw = "80.5"           -> Finite(80, TRUE)
      [] raw = "4001"           -> Finite(4001, FALSE)
      [] raw = "65535"          -> Finite(65535, FALSE)
      [] raw = "65535.5"        -> Finite(65535, TRUE)
      [] raw = "65536"          -> Finite(65536, FALSE)
      [] raw = "Infinity"       -> Infinity
      [] OTHER                  -> NaN

isFinite(n) == n.kind = "finite"

\* n < k and n > k for an integer k, as JavaScript compares: false for NaN
lessThan(n, k) == n.kind = "finite" /\ n.floor < k

greaterThan(n, k) ==
    \/ n.kind = "inf"
    \/ n.kind = "finite" /\ (n.floor > k \/ (n.floor = k /\ n.frac))

\* String.prototype.trim, on the texts the model types
trim(s) == IF s = " " THEN "" ELSE s

\* the port range of getDeviceFormPayload
MinPort == 1

MaxPort == 65535

(* ---------------------------- requests --------------------------------- *)

\* A request in flight.  kind: the endpoint call; code: the command_code of
\* an execute call; id: device_id of an execute call, the id in the URL of
\* PUT/DELETE, dev.id of onDeviceDelete or created.id while it reloads;
\* enabled: is_enabled of the form payload; caller: the handler that resumes
\* when the answer is in;
\* prev: prevSelected of reloadDevices(true);
\* num: the number in the body, a command's parameter or the form's
\* moxa_port (NoNumber until withNumber puts one in).
Request(kind, code, id, enabled, caller, prev) ==
    [ kind |-> kind, code |-> code, id |-> id, enabled |-> enabled,
      caller |-> caller, prev |-> prev, num |-> NoNumber ]

withNumber(r, n) == [r EXCEPT !.num = n]

InFlight == BagToSet(inflight)

send(S, r) == [S EXCEPT !.inflight = @ (+) SetToBag({r}), !.sent = @ + 1]

received(S, r) == [S EXCEPT !.inflight = @ (-) SetToBag({r})]

\* the device list the service returns: the records it holds
listing(srv) == [i \in Ids |-> IF srv[i] \in {"on", "off"} THEN srv[i] ELSE "none"]

\* the id the service gives the next created device; ids are never reused
freshId(srv) ==
    IF \E i \in Ids : srv[i] = "none"
    THEN CHOOSE i \in Ids : srv[i] = "none" /\ \A j \in Ids : srv[j] = "none" => i <= j
    ELSE Null

cached(S, id) == id \in Ids /\ S.devices[id] # "none"

(* ------------------------- connection / view --------------------------- *)

setConn(S, ok, text) == [S EXCEPT !.conn = [dot |-> ok, text |-> text]]

setEnabledUI(S, enabled) ==
    [S EXCEPT !.ctrlEnabled = enabled, !.refreshEnabled = enabled]

\* the log shows a response, or the text of the error that was caught
setLastCommand(S, payload) == [S EXCEPT !.lastCommand = payload]

clearStatusView(S) == [S EXCEPT !.statusView = Null]

\* data is the decoded answer of the GET_STATUS sent to device src
updateStatusUI(S, src) == [S EXCEPT !.statusView = src]

(* ------------------------------ actions -------------------------------- *)

\* variant of runCommandThrows: the selection is not tested
runCommandUnguarded(S) == FALSE

\* runCommand's first line: throws when no device is selected
runCommandThrows(S) == S.selectedId = Null

\* runCommand past its guard: the POST to /commands/execute, awaited
\* params: the number of the command's parameter, NoNumber for {}
runCommand(S, code, params, caller) ==
    send(S, withNumber(Request("EXEC", code, S.selectedId, FALSE, caller, Null),
                       params))

\* refreshStatus up to its await; caller: the handler that awaits it
refreshStatus(S, caller) ==
    IF S.selectedId = Null THEN S
    ELSE IF ~cached(S, S.selectedId) THEN S
    ELSE IF S.devices[S.selectedId] = "off"
    THEN [clearStatusView(setConn(S, "bad", "disabled"))
             EXCEPT !.lastPollOkById[S.selectedId] = FALSE]
    ELSE runCommand(setConn([S EXCEPT !.refreshEnabled = FALSE], "none", "updating"),
                    "GET_STATUS", NoNumber, caller)

\* variant of refreshStatusDone: the catch clears the status view
refreshStatusDoneClears(S, r, ok) ==
    LET T == IF ok
             THEN setConn(setLastCommand(updateStatusUI(
                      [S EXCEPT !.lastPollOkById[S.selectedId] = TRUE], r.id),
                      "response"), "ok", "updated")
             ELSE clearStatusView(setConn(setLastCommand(
                      [S EXCEPT !.lastPollOkById[S.selectedId] = FALSE,
                                !.errorsCount = @ + 1],
                      "error"), "bad", "error"))
    IN  [T EXCEPT !.refreshEnabled = TRUE]

\* variant of refreshStatusDone: no finally block
refreshStatusDoneNoFinally(S, r, ok) ==
    IF ok
    THEN setConn(setLastCommand(updateStatusUI(
             [S EXCEPT !.lastPollOkById[S.selectedId] = TRUE], r.id),
             "response"), "ok", "updated")
    ELSE setConn(setLastCommand(
             [S EXCEPT !.lastPollOkById[S.selectedId] = FALSE,
                       !.errorsCount = @ + 1],
             "error"), "bad", "error")

\* refreshStatus after its await: try / catch / finally
refreshStatusDone(S, r, ok) ==
    LET T == IF ok
             THEN setConn(setLastCommand(updateStatusUI(
                      [S EXCEPT !.lastPollOkById[S.selectedId] = TRUE], r.id),
                      "response"), "ok", "updated")
             ELSE setConn(setLastCommand(
                      [S EXCEPT !.lastPollOkById[S.selectedId] = FALSE,
                                !.errorsCount = @ + 1],
                      "error"), "bad", "error")
    IN  [T EXCEPT !.refreshEnabled = TRUE]

\* variant of selectDevice: the enabled branch does not refresh
selectDeviceNoRefresh(S, id) ==
    LET S1 == [S EXCEPT !.selectedId = id]
    IN  IF ~cached(S1, id) THEN S1
        ELSE IF S1.devices[id] = "off"
        THEN setConn(clearStatusView(setEnabledUI(S1, FALSE)), "bad", "disabled")
        ELSE setConn(setEnabledUI(S1, TRUE), "none", "idle")

\* variant of selectDevice: a device that is not found is taken as enabled
selectDeviceNoLookup(S, id) ==
    LET S1 == [S EXCEPT !.selectedId = id]
    IN  IF S1.devices[id] = "off"
        THEN setConn(clearStatusView(setEnabledUI(S1, FALSE)), "bad", "disabled")
        ELSE refreshStatus(setConn(setEnabledUI(S1, TRUE), "none", "idle"), "selectDevice")

selectDevice(S, id) ==
    LET S1 == [S EXCEPT !.selectedId = id]
    IN  IF ~cached(S1, id) THEN S1
        ELSE IF S1.devices[id] = "off"
        THEN setConn(clearStatusView(setEnabledUI(S1, FALSE)), "bad", "disabled")
        ELSE refreshStatus(setConn(setEnabledUI(S1, TRUE), "none", "idle"), "selectDevice")


\* where a throw inside a command handler ends: the quick-command and chip
\* handlers catch it and log it; the +/- buttons call doStep bare, and the
\* promise doStep returns is rejected with nobody to catch it
thrown(S, caller, payload) ==
    IF caller \in {"quick", "chip"} THEN setLastCommand(S, payload)
    ELSE [S EXCEPT !.uncaught = TRUE]

\* a quick-command button's handler up to its await
quickCommand(S, code) ==
    IF runCommandThrows(S) THEN thrown(S, "quick", "notSelected")
    ELSE runCommand(S, code, NoNumber, "quick")

\* parseNumberInput on an input whose value is raw
parseNumberInput(raw) ==
    LET num == Number(raw)
    IN  [thrown |-> ~isFinite(num), num |-> num]

\* doSet up to its await; raw: the value of the command's input
doSet(S, code, raw) ==
    IF S.selectedId = Null THEN S
    ELSE LET v == parseNumberInput(raw)
         IN  IF v.thrown THEN thrown(S, "chip", "invalidNumber")
             ELSE IF runCommandThrows(S) THEN thrown(S, "chip", "notSelected")
             ELSE runCommand(S, code, v.num, "chip")

\* doStep up to its await; delta: the handler's literal or the text of the
\* chip's data-step attribute, either way passed through Number()
doStep(S, code, delta, caller) ==
    IF S.selectedId = Null THEN S
    ELSE IF runCommandThrows(S) THEN thrown(S, caller, "notSelected")
    ELSE runCommand(S, code, Number(delta), caller)

\* variant of commandDone: the answer is logged and the status is not refreshed
commandDoneNoRefresh(S, r, ok) ==
    IF ok THEN setLastCommand(S, "response")
    ELSE thrown(S, r.caller, "error")

\* a mutating command after its await: log the answer, then refreshStatus()
commandDone(S, r, ok) ==
    IF ok THEN refreshStatus(setLastCommand(S, "response"), r.caller)
    ELSE thrown(S, r.caller, "error")

(* fetch(API.execute) as runCommand sees it: the promise rejects (network
   error), or resolves with a status (resp.ok) and a body that resp.json()
   parses or not *)
Response(rejects, ok, parses) == [rejects |-> rejects, ok |-> ok, parses |-> parses]

Responses ==
    {Response(TRUE, FALSE, FALSE)}
        \cup {Response(FALSE, ok, parses) : ok \in BOOLEAN, parses \in BOOLEAN}

\* runCommand after its await: TRUE when it returns json, FALSE when it
\* throws; a body that does not parse is replaced by {} and is not tested
runCommandReturns(resp) == ~resp.rejects /\ resp.ok

(* --------------------------- device registry --------------------------- *)

\* deviceModalMode, deviceModalId and the error box are dead while the
\* modal is closed: setDeviceModalMode writes the first two and
\* openDeviceModal(true) clears the box before the form can be submitted
\* again.  The model resets them on closing.
openDeviceModal(S, open) ==
    IF open THEN [S EXCEPT !.modalOpen = TRUE, !.formError = FALSE]
    ELSE [S EXCEPT !.modalOpen = FALSE, !.formError = FALSE,
                   !.deviceModalMode = "create", !.deviceModalId = Null]

setDeviceModalMode(S, mode, id) ==
    openDeviceModal([S EXCEPT !.deviceModalMode = mode, !.deviceModalId = id],
                    TRUE)

\* the catch of onDeviceFormSubmit; the box is out of sight, and cleared
\* before it shows again, when the modal is closed
showDeviceFormError(S) ==
    IF S.modalOpen THEN [S EXCEPT !.formError = TRUE] ELSE S

onDeviceAdd(S) == setDeviceModalMode(S, "create", Null)

onDeviceEdit(S) ==
    IF S.selectedId = Null THEN S
    ELSE IF ~cached(S, S.selectedId) THEN S
    ELSE setDeviceModalMode(S, "edit", S.selectedId)

\* reloadDevices up to its await; prevSelected is read before the await and
\* used after it only when preserveSelection holds
reloadDevices(S, preserveSelection, caller, id) ==
    send(S, Request("LIST", "-", id, FALSE, caller,
                    IF preserveSelection THEN S.selectedId ELSE Null))

\* variant of reloadDevicesDone: the reload resets the error counter, as
\* loadDevices does
reloadDevicesDoneResetsErrors(S, r, preserveSelection) ==
    LET S1 == [S EXCEPT !.devices = listing(S.server), !.errorsCount = 0]
        S2 == IF preserveSelection /\ r.prev # Null /\ S1.devices[r.prev] = "none"
              THEN [S1 EXCEPT !.selectedId = Null]
              ELSE S1
    IN  IF S2.selectedId = Null
        THEN setConn(clearStatusView(setEnabledUI(S2, FALSE)), "none", "idle")
        ELSE S2

\* reloadDevices after its await
reloadDevicesDone(S, r, preserveSelection) ==
    LET S1 == [S EXCEPT !.devices = listing(S.server)]
        S2 == IF preserveSelection /\ r.prev # Null /\ S1.devices[r.prev] = "none"
              THEN [S1 EXCEPT !.selectedId = Null]
              ELSE S1
    IN  IF S2.selectedId = Null
        THEN setConn(clearStatusView(setEnabledUI(S2, FALSE)), "none", "idle")
        ELSE S2

\* onDeviceDelete up to its await (the operator confirmed)
onDeviceDelete(S) ==
    IF S.selectedId = Null THEN S
    ELSE IF ~cached(S, S.selectedId) THEN S
    ELSE send(S, Request("DELETE", "-", S.selectedId, FALSE, "onDeviceDelete", Null))

\* variant of deleteFailed: the failure is shown and not counted
deleteFailedNotCounted(S) ==
    setConn(setLastCommand(S, "error"), "bad", "error")

\* the catch of onDeviceDelete
deleteFailed(S) ==
    setConn(setLastCommand([S EXCEPT !.errorsCount = @ + 1], "error"),
            "bad", "error")

\* onDeviceDelete after deleteDevice resolved
deleteDone(S, r, ok) ==
    IF ok
    THEN reloadDevices(
             [setLastCommand([S EXCEPT !.server[r.id] = "gone"], "response")
                 EXCEPT !.selectedId = Null],
             FALSE, "onDeviceDelete", r.id)
    ELSE deleteFailed(S)

\* the device form as typed: the values of dev-name, dev-host and dev-port
\* and the state of the dev-enabled box
Form(name, host, port, enabled) ==
    [name |-> name, host |-> host, port |-> port, enabled |-> enabled]

\* variant of getDeviceFormPayload: the port has no upper limit
getDeviceFormPayloadNoMax(form) ==
    LET name == trim(form.name)
        host == trim(form.host)
        port == Number(form.port)
    IN  [ thrown |-> \/ name = ""
                     \/ host = ""
                     \/ ~isFinite(port) \/ lessThan(port, MinPort),
          name |-> name, moxa_host |-> host, moxa_port |-> port,
          is_enabled |-> form.enabled ]

\* getDeviceFormPayload: the payload, or thrown when a check fails
getDeviceFormPayload(form) ==
    LET name == trim(form.name)
        host == trim(form.host)
        port == Number(form.port)
    IN  [ thrown |-> \/ name = ""
                     \/ host = ""
                     \/ ~isFinite(port) \/ lessThan(port, MinPort)
                                        \/ greaterThan(port, MaxPort),
          name |-> name, moxa_host |-> host, moxa_port |-> port,
          is_enabled |-> form.enabled ]

\* onDeviceFormSubmit up to its await
onDeviceFormSubmit(S, form) ==
    LET payload == getDeviceFormPayload(form)
    IN  IF payload.thrown THEN showDeviceFormError(S)
        ELSE IF S.deviceModalMode = "create"
        THEN send(S, withNumber(Request("CREATE", "-", Null, payload.is_enabled,
                                        "create", Null), payload.moxa_port))
        ELSE IF S.deviceModalId = Null THEN showDeviceFormError(S)
        ELSE send(S, withNumber(Request("UPDATE", "-", S.deviceModalId,
                                        payload.is_enabled, "edit", Null),
                                payload.moxa_port))

\* onDeviceFormSubmit after createDevice resolved
createDone(S, r, ok) ==
    IF ok
    THEN LET id == freshId(S.server)
         IN  reloadDevices(
                 setLastCommand(openDeviceModal(
                     [S EXCEPT !.server[id] = IF r.enabled THEN "on" ELSE "off"],
                     FALSE), "response"),
                 FALSE, "create", id)
    ELSE showDeviceFormError(S)

\* onDeviceFormSubmit after updateDevice resolved
updateDone(S, r, ok) ==
    IF ok
    THEN reloadDevices(
             setLastCommand(openDeviceModal(
                 [S EXCEPT !.server[r.id] = IF r.enabled THEN "on" ELSE "off"],
                 FALSE), "response"),
             TRUE, "edit", r.id)
    ELSE showDeviceFormError(S)

\* variant of listDone: the edit path does not select again after the reload
listDoneNoReselect(S, r, ok) ==
    IF r.caller = "onDeviceDelete"
    THEN IF ok THEN reloadDevicesDone(S, r, FALSE) ELSE deleteFailed(S)
    ELSE IF r.caller = "create"
    THEN IF ok THEN selectDevice([reloadDevicesDone(S, r, FALSE)
                                     EXCEPT !.selectedId = r.id], r.id)
         ELSE showDeviceFormError(S)
    ELSE IF ok THEN reloadDevicesDone(S, r, TRUE)
         ELSE showDeviceFormError(S)

\* the handler that awaited reloadDevices, after it
listDone(S, r, ok) ==
    IF r.caller = "onDeviceDelete"
    THEN IF ok THEN reloadDevicesDone(S, r, FALSE) ELSE deleteFailed(S)
    ELSE IF r.caller = "create"
    THEN IF ok THEN selectDevice([reloadDevicesDone(S, r, FALSE)
                                     EXCEPT !.selectedId = r.id], r.id)
         ELSE showDeviceFormError(S)
    ELSE IF ok
         THEN LET T == reloadDevicesDone(S, r, TRUE)
              IN  IF T.selectedId # Null THEN selectDevice(T, T.selectedId) ELSE T
         ELSE showDeviceFormError(S)

\* loadDevices after its await
loadDevicesDone(S, ok) ==
    IF ok
    THEN clearStatusView(setConn(setEnabledUI(
             [S EXCEPT !.devices = listing(S.server), !.errorsCount = 0],
             FALSE), "none", "idle"))
    ELSE setConn(S, "bad", "error")

(* -------------------------- status decoding ---------------------------- *)

Flags == {"ext_ref_error", "int_osc_error", "pll_lock_error",
          "tuning_voltage_error", "invalid_parameter", "invalid_command"}

\* a flag of the register as JSON gives it: true, false, or null / missing
FlagValues == {"true", "false", "null"}

\* JavaScript's truthiness of a flag
truthy(v) == v = "true"

\* data.status_register: an object of flags, or null / missing
Register(present, flags) == [present |-> present, flags |-> flags]

NullRegister == Register(FALSE, [f \in Flags |-> "null"])

\* the object {}: every flag reads undefined
EmptyObject == Register(TRUE, [f \in Flags |-> "null"])

StatusRegisters ==
    {NullRegister} \cup {Register(TRUE, flags) : flags \in [Flags -> FlagValues]}

\* the numeric fields of a payload, and the readings of its pll block
Fields == {"temperature", "freq", "phase", "ffof", "time_offset_ns"}

PllFields == {"osc_dbm", "ref_dbm", "lock_v", "pll_v"}

\* a numeric field as JSON gives it: null / missing, zero, or another number
FieldValues == {"null", "0", "25.5"}

\* data.pll: an object of readings, or null / missing
Pll(present, readings) == [present |-> present, readings |-> readings]

NullPll == Pll(FALSE, [f \in PllFields |-> "null"])

ZeroPll == Pll(TRUE, [f \in PllFields |-> "0"])

Plls == {NullPll} \cup {Pll(TRUE, readings) : readings \in [PllFields -> FieldValues]}

\* a payload: status_register, pll and the five numeric fields
Payload(sre, pll, fields) == [status_register |-> sre, pll |-> pll] @@ fields

NullFields == [f \in Fields |-> "null"]

\* the payloads of every register, their numeric part missing
StatusData == {Payload(sre, NullPll, NullFields) : sre \in StatusRegisters}

\* the payloads of every numeric part, their register missing
NumericData ==
    {Payload(NullRegister, pll, fields) : pll \in Plls, fields \in [Fields -> FieldValues]}

NoData == Payload(NullRegister, NullPll, NullFields)

\* variant of anySreError: invalid_command is left out
anySreErrorNoCommand(sre) ==
    IF ~sre.present THEN FALSE
    ELSE \/ truthy(sre.flags["ext_ref_error"])
         \/ truthy(sre.flags["int_osc_error"])
         \/ truthy(sre.flags["pll_lock_error"])
         \/ truthy(sre.flags["tuning_voltage_error"])
         \/ truthy(sre.flags["invalid_parameter"])

\* monitoring.js
anySreError(sre) ==
    IF ~sre.present THEN FALSE
    ELSE \/ truthy(sre.flags["ext_ref_error"])
         \/ truthy(sre.flags["int_osc_error"])
         \/ truthy(sre.flags["pll_lock_error"])
         \/ truthy(sre.flags["tuning_voltage_error"])
         \/ truthy(sre.flags["invalid_parameter"])
         \/ truthy(sre.flags["invalid_command"])

\* the texts of the displays; Unknown is the dash
Unknown == "--"

\* a text node's content, `${v}${suffix}`: the value's digits, then the unit
Text(v, suffix) == [value |-> v, unit |-> suffix]

\* the suffix updateStatusUI passes for each field, in ASCII
Suffix ==
    [temperature |-> " C", freq |-> " Hz", phase |-> " deg", ffof |-> "",
     time_offset_ns |-> " ns", osc_dbm |-> " dBm", ref_dbm |-> " dBm",
     lock_v |-> " V", pll_v |-> " V"]

\* variant of formatMaybe: the value is tested for truthiness
formatMaybeTruthy(v, suffix) ==
    IF v \in {"null", "0"} THEN Text(Unknown, "") ELSE Text(v, suffix)

formatMaybe(v, suffix) ==
    IF v = "null" THEN Text(Unknown, "") ELSE Text(v, suffix)

\* (v ?? "-") + (v != null ? suffix : "")
pllText(v, suffix) ==
    Text(IF v = "null" THEN Unknown ELSE v, IF v # "null" THEN suffix ELSE "")

\* variant of pllUI: pll = data.pll || {}
pllUIEmptyObject(pll) ==
    [badge |-> "OK",
     texts |-> [f \in PllFields |-> pllText(pll.readings[f], Suffix[f])]]

\* updateStatusUI, the PLL block: pll = data.pll || null
pllUI(pll) ==
    IF ~pll.present
    THEN [badge |-> "no data", texts |-> [f \in PllFields |-> Text(Unknown, "")]]
    ELSE [badge |-> "OK",
          texts |-> [f \in PllFields |-> pllText(pll.readings[f], Suffix[f])]]

\* updateStatusUI, the five st-* texts and the PLL block
statusFieldsUI(d) ==
    [shown |-> TRUE,
     texts |-> [f \in Fields |-> formatMaybe(d[f], Suffix[f])],
     pll |-> pllUI(d.pll)]

NoFields ==
    [shown |-> FALSE,
     texts |-> [f \in Fields |-> Text(Unknown, "")],
     pll |-> [badge |-> Unknown, texts |-> [f \in PllFields |-> Text(Unknown, "")]]]

\* nothing rendered yet
NotShown == [shown |-> FALSE, sreBad |-> FALSE, text |-> Unknown,
             flags |-> [f \in Flags |-> Unknown]]

\* renderStatusTable, the register cell of a row whose data is d:
\* sre = data.status_register || null
statusRow(d) ==
    LET sre == d.status_register
        sreBad == anySreError(sre)
    IN  [shown |-> TRUE, sreBad |-> sreBad,
         text |-> IF sre.present THEN (IF sreBad THEN "BAD" ELSE "OK") ELSE Unknown,
         flags |-> [f \in Flags |-> Unknown]]

flagText(v) == IF v = "null" THEN Unknown ELSE IF truthy(v) THEN "error" ELSE "OK"

\* updateStatusUI, the badge and the flags: sre = data.status_register || {}
statusRegisterUI(d) ==
    LET sre == IF d.status_register.present THEN d.status_register ELSE EmptyObject
        anyErr == \/ truthy(sre.flags["ext_ref_error"])
                  \/ truthy(sre.flags["int_osc_error"])
                  \/ truthy(sre.flags["pll_lock_error"])
                  \/ truthy(sre.flags["tuning_voltage_error"])
                  \/ truthy(sre.flags["invalid_parameter"])
                  \/ truthy(sre.flags["invalid_command"])
    IN  [shown |-> TRUE, sreBad |-> anyErr,
         text |-> IF anyErr THEN "errors" ELSE "OK",
         flags |-> [f \in Flags |-> flagText(sre.flags[f])]]

(* ------------------------- the monitoring page ------------------------- *)

\* the limit the page starts with, and the limits of the data-limit buttons
DefaultLimit == 200

Limits == {DefaultLimit, 500}

\* the state of monitoring.js as one value, threaded through its functions
MonCur ==
    [ devices |-> monDevices, selectedId |-> monSelectedId, limit |-> limit,
      autoTimer |-> autoTimer, timers |-> timers, autoChecked |-> autoChecked,
      listing |-> monListing, loads |-> loads, tables |-> tables,
      detail |-> detail ]

MonCommit(M) ==
    /\ monDevices' = M.devices
    /\ monSelectedId' = M.selectedId
    /\ limit' = M.limit
    /\ autoTimer' = M.autoTimer
    /\ timers' = M.timers
    /\ autoChecked' = M.autoChecked
    /\ monListing' = M.listing
    /\ loads' = M.loads
    /\ tables' = M.tables
    /\ detail' = M.detail

\* a loadMonitoringData call at its await: both fetches carry the device
\* and the limit read before it; by: what called it ("select", "refresh",
\* "limit", or "tick" for the interval's callback)
Load(device, n, by) == [device |-> device, limit |-> n, by |-> by]

NoTables == [device |-> Null, limit |-> 0]

\* setDetail, by the kind of its title
setDetail(M, kind) == [M EXCEPT !.detail = kind]

\* variant of loadMonitoringData: a call returns while a load is awaited
loadMonitoringDataSerialized(M, by) ==
    IF M.selectedId = Null THEN M
    ELSE IF M.loads # EmptyBag THEN M
    ELSE [M EXCEPT !.loads = @ (+) SetToBag({Load(M.selectedId, M.limit, by)})]

\* loadMonitoringData up to its await
loadMonitoringData(M, by) ==
    IF M.selectedId = Null THEN M
    ELSE [M EXCEPT !.loads = @ (+) SetToBag({Load(M.selectedId, M.limit, by)})]

\* variant of loadFailed: a failed tick switches the auto-refresh off
loadFailedStopsAuto(M, by) ==
    IF by = "tick"
    THEN [setDetail(M, "autoError") EXCEPT !.autoTimer = Null,
                                          !.timers = @ \ {M.autoTimer}]
    ELSE setDetail(M, "error")

\* the catch around the call: the interval's callback names the
\* auto-refresh in the detail pane, the other callers show a plain error
loadFailed(M, by) ==
    IF by = "tick" THEN setDetail(M, "autoError") ELSE setDetail(M, "error")

\* variant of loadMonitoringDataDone: the tables are rendered as soon as
\* the snapshots are in
loadMonitoringDataDoneStatusOnly(M, r, okStatus, okCommands) ==
    IF okStatus
    THEN [M EXCEPT !.tables = [device |-> r.device, limit |-> r.limit]]
    ELSE loadFailed(M, r.by)

\* loadMonitoringData after Promise.all: both answers are in, or one failed
loadMonitoringDataDone(M, r, okStatus, okCommands) ==
    IF okStatus /\ okCommands
    THEN [M EXCEPT !.tables = [device |-> r.device, limit |-> r.limit]]
    ELSE loadFailed(M, r.by)

\* selectDevice of monitoring.js
monSelectDevice(M, id) ==
    loadMonitoringData(setDetail([M EXCEPT !.selectedId = id], "hint"), "select")

\* setInterval: the id of a new live interval, one no live interval has
setInterval(M) == CHOOSE t \in 1..(Cardinality(M.timers) + 1) : t \notin M.timers

\* variant of setAuto: the old interval is forgotten but not cleared
setAutoNoClear(M, on) ==
    LET M1 == [M EXCEPT !.autoTimer = Null]
    IN  IF on
        THEN LET t == setInterval(M1)
             IN  [M1 EXCEPT !.autoTimer = t, !.timers = @ \cup {t}]
        ELSE M1

\* variant of setAuto: the old interval is cleared but autoTimer keeps its id
setAutoKeepsId(M, on) ==
    LET M1 == IF M.autoTimer # Null
              THEN [M EXCEPT !.timers = @ \ {M.autoTimer}]
              ELSE M
    IN  IF on
        THEN LET t == setInterval(M1)
             IN  [M1 EXCEPT !.autoTimer = t, !.timers = @ \cup {t}]
        ELSE M1

setAuto(M, on) ==
    LET M1 == IF M.autoTimer # Null
              THEN [M EXCEPT !.timers = @ \ {M.autoTimer}, !.autoTimer = Null]
              ELSE M
    IN  IF on
        THEN LET t == setInterval(M1)
             IN  [M1 EXCEPT !.autoTimer = t, !.timers = @ \cup {t}]
        ELSE M1

\* the click handler of a data-limit button whose attribute reads n
setLimit(M, n) ==
    LET M1 == [M EXCEPT !.limit = n]
    IN  IF M1.selectedId # Null THEN loadMonitoringData(M1, "limit") ELSE M1

\* loadDevices of monitoring.js after its await, and the catch around it;
\* list: the devices the service answers with
monLoadDevicesDone(M, ok, list) ==
    IF ok THEN [M EXCEPT !.devices = list, !.listing = FALSE]
    ELSE setDetail([M EXCEPT !.listing = FALSE], "error")

(* ------------------------------ the page ------------------------------- *)

InitServer == [i \in Ids |-> IF i = 1 THEN "on" ELSE IF i = 2 THEN "off" ELSE "none"]

\* DOMContentLoaded: wireUI() has run and loadDevices() awaits the list.
\* The markup is taken to show the command controls disabled and no status
\* until the first list is in, as loadDevices leaves them.
InitPanel ==
    /\ server = InitServer
    /\ devices = [i \in Ids |-> "none"]
    /\ selectedId = Null
    /\ lastPollOkById = [i \in 0..MaxId |-> TRUE]
    /\ errorsCount = 0
    /\ deviceModalMode = "create"
    /\ deviceModalId = Null
    /\ modalOpen = FALSE
    /\ formError = FALSE
    /\ conn = [dot |-> "none", text |-> "idle"]
    /\ ctrlEnabled = FALSE
    /\ refreshEnabled = FALSE
    /\ statusView = Null
    /\ lastCommand = "-"
    /\ inflight = SetToBag({Request("LIST", "-", Null, FALSE, "loadDevices", Null)})
    /\ sent = 1
    /\ uncaught = FALSE

\* no payload has been decoded
NoDecode ==
    data = NoData /\ stSre = NotShown /\ stFields = NoFields /\ monSre = NotShown

\* DOMContentLoaded of monitoring.js: wireUI() has run and loadDevices()
\* awaits the list; checked: the state the browser gives the mon-auto box
InitMonitoring(checked) ==
    /\ monDevices = [i \in Ids |-> "none"]
    /\ monSelectedId = Null
    /\ limit = DefaultLimit
    /\ autoTimer = Null
    /\ timers = {}
    /\ autoChecked = checked
    /\ monListing = TRUE
    /\ loads = EmptyBag
    /\ tables = NoTables
    /\ detail = "-"

Init == InitPanel /\ NoDecode /\ InitMonitoring(FALSE)

\* a step is taken only if its requests fit the bounds of the model
Bounded(S) ==
    /\ BagCardinality(S.inflight) <= MaxInFlight
    /\ S.errorsCount <= MaxErrors
    /\ S.sent <= MaxRequests

Step(S) == Bounded(S) /\ Commit(S) /\ UNCHANGED << decodeVars, monVars >>

\* the service refuses PUT and DELETE of an id it does not hold (404)
MayAnswer(r, ok) ==
    /\ (ok /\ r.kind \in {"UPDATE", "DELETE"}) => server[r.id] \in {"on", "off"}
    /\ (ok /\ r.kind = "CREATE") => freshId(server) # Null

(* user events *)

\* the modal's backdrop covers the page (a click on it closes the modal):
\* while it is open the list and the buttons of the page are out of reach;
\* the R hotkey is a listener of the window and is not
PageReachable == ~modalOpen

ClickDevice(id) == PageReachable /\ cached(Cur, id) /\ Step(selectDevice(Cur, id))

\* the refresh button and the R hotkey, both gated on the button's state
ClickRefresh == refreshEnabled /\ Step(refreshStatus(Cur, "refresh"))

ClickQuick(code) == PageReachable /\ ctrlEnabled /\ Step(quickCommand(Cur, code))

\* the + button of a parameter, whose handler passes the literal 0.001
ClickStepButton(code) ==
    PageReachable /\ ctrlEnabled /\ Step(doStep(Cur, code, "0.001", "button"))

\* a chip with data-step-type; step: the text of its data-step attribute
ClickStepChip(code, step) ==
    PageReachable /\ ctrlEnabled /\ Step(doStep(Cur, code, step, "chip"))

\* a chip with data-set-type; raw: what the input holds at the click
ClickSetChip(code, raw) ==
    PageReachable /\ ctrlEnabled /\ Step(doSet(Cur, code, raw))

ClickDeviceAdd == PageReachable /\ Step(onDeviceAdd(Cur))

ClickDeviceEdit == PageReachable /\ Step(onDeviceEdit(Cur))

ClickDeviceDelete == PageReachable /\ Step(onDeviceDelete(Cur))

CloseDeviceModal == modalOpen /\ Step(openDeviceModal(Cur, FALSE))

\* form: what the fields hold at the submit
SubmitDeviceForm(form) == modalOpen /\ Step(onDeviceFormSubmit(Cur, form))

(* responses *)

Arrives(r, ok) == r \in InFlight /\ MayAnswer(r, ok)

GetStatusResponse(r, ok) ==
    /\ Arrives(r, ok) /\ r.kind = "EXEC" /\ r.code = "GET_STATUS"
    /\ Step(refreshStatusDone(received(Cur, r), r, ok))

CommandResponse(r, ok) ==
    /\ Arrives(r, ok) /\ r.kind = "EXEC" /\ r.code # "GET_STATUS"
    /\ Step(commandDone(received(Cur, r), r, ok))

DeleteResponse(r, ok) ==
    /\ Arrives(r, ok) /\ r.kind = "DELETE"
    /\ Step(deleteDone(received(Cur, r), r, ok))

CreateResponse(r, ok) ==
    /\ Arrives(r, ok) /\ r.kind = "CREATE"
    /\ Step(createDone(received(Cur, r), r, ok))

UpdateResponse(r, ok) ==
    /\ Arrives(r, ok) /\ r.kind = "UPDATE"
    /\ Step(updateDone(received(Cur, r), r, ok))

ListResponse(r, ok) ==
    /\ Arrives(r, ok) /\ r.kind = "LIST" /\ r.caller # "loadDevices"
    /\ Step(listDone(received(Cur, r), r, ok))

LoadResponse(r, ok) ==
    /\ Arrives(r, ok) /\ r.kind = "LIST" /\ r.caller = "loadDevices"
    /\ Step(loadDevicesDone(received(Cur, r), ok))

\* The texts Next types: one per outcome of the handlers' checks, so that
\* every branch of doSet, doStep and onDeviceFormSubmit is taken.
SomeSteps == {"0.001"}

SomeNumbers == {"10.5", "abc"}

SomeForms == {Form(name, "moxa", "4001", enabled) :
                  name \in {"", "hrog"}, enabled \in BOOLEAN}

Next ==
    \/ \E id \in Ids : ClickDevice(id)
    \/ ClickRefresh
    \/ \E code \in QuickCommands : ClickQuick(code)
    \/ \E code \in StepCommands : ClickStepButton(code)
    \/ \E code \in StepCommands, step \in SomeSteps : ClickStepChip(code, step)
    \/ \E code \in SetCommands, raw \in SomeNumbers : ClickSetChip(code, raw)
    \/ ClickDeviceAdd
    \/ ClickDeviceEdit
    \/ ClickDeviceDelete
    \/ CloseDeviceModal
    \/ \E form \in SomeForms : SubmitDeviceForm(form)
    \/ \E r \in InFlight, ok \in BOOLEAN : GetStatusResponse(r, ok)
    \/ \E r \in InFlight, ok \in BOOLEAN : CommandResponse(r, ok)
    \/ \E r \in InFlight, ok \in BOOLEAN : DeleteResponse(r, ok)
    \/ \E r \in InFlight, ok \in BOOLEAN : CreateResponse(r, ok)
    \/ \E r \in InFlight, ok \in BOOLEAN : UpdateResponse(r, ok)
    \/ \E r \in InFlight, ok \in BOOLEAN : ListResponse(r, ok)
    \/ \E r \in InFlight, ok \in BOOLEAN : LoadResponse(r, ok)

Spec == Init /\ [][Next]_vars

(* The execute calls alone, each answered by every outcome of the fetch. *)
ExecuteAnswer(r, resp) ==
    \/ GetStatusResponse(r, runCommandReturns(resp))
    \/ CommandResponse(r, runCommandReturns(resp))

NextTransport ==
    \/ \E id \in Ids : ClickDevice(id)
    \/ ClickRefresh
    \/ \E code \in QuickCommands : ClickQuick(code)
    \/ \E r \in InFlight, resp \in Responses : ExecuteAnswer(r, resp)
    \/ \E r \in InFlight, ok \in BOOLEAN : LoadResponse(r, ok)

SpecTransport == Init /\ [][NextTransport]_vars

(* The execute calls again, every GET_STATUS in flight answered in the end:
   the network resolves or fails each request. *)
AnswerGetStatus == \E r \in InFlight, ok \in BOOLEAN : GetStatusResponse(r, ok)

SpecAnswered == Init /\ [][NextTransport]_vars /\ WF_vars(AnswerGetStatus)

(* The decoding of one status payload, drawn from all the registers: the
   control panel shows it (updateStatusUI) and the monitoring page renders
   its row (renderStatusTable), in either order. *)

InitDecode ==
    /\ InitPanel /\ InitMonitoring(FALSE)
    /\ data \in StatusData
    /\ stSre = NotShown /\ stFields = NoFields /\ monSre = NotShown

UpdateStatusUI ==
    /\ ~stSre.shown
    /\ stSre' = statusRegisterUI(data)
    /\ stFields' = statusFieldsUI(data)
    /\ UNCHANGED << data, monSre, monVars >>
    /\ Commit(Cur)

RenderStatusTable ==
    /\ ~monSre.shown
    /\ monSre' = statusRow(data)
    /\ UNCHANGED << data, stSre, stFields, monVars >>
    /\ Commit(Cur)

NextDecode == UpdateStatusUI \/ RenderStatusTable

SpecDecode == InitDecode /\ [][NextDecode]_vars

(* The decoding of the numeric part of one payload by the control panel. *)
InitNumeric ==
    /\ InitPanel /\ InitMonitoring(FALSE)
    /\ data \in NumericData
    /\ stSre = NotShown /\ stFields = NoFields /\ monSre = NotShown

NextNumeric == UpdateStatusUI

SpecNumeric == InitNumeric /\ [][NextNumeric]_vars

(* The monitoring page. *)

InitMon == InitPanel /\ NoDecode /\ \E checked \in BOOLEAN : InitMonitoring(checked)

\* a step is taken only if its loads and intervals fit the bounds
MonBounded(M) ==
    /\ BagCardinality(M.loads) <= MaxLoads
    /\ Cardinality(M.timers) <= MaxTimers

MonStep(M) ==
    MonBounded(M) /\ MonCommit(M) /\ Commit(Cur) /\ UNCHANGED decodeVars

MonListResponse(ok) ==
    monListing /\ MonStep(monLoadDevicesDone(MonCur, ok, listing(server)))

MonClickDevice(id) ==
    monDevices[id] # "none" /\ MonStep(monSelectDevice(MonCur, id))

\* btn-mon-refresh and the R hotkey
MonClickRefresh == MonStep(loadMonitoringData(MonCur, "refresh"))

ClickLimit(n) == MonStep(setLimit(MonCur, n))

\* the change event of the mon-auto box
ChangeAuto ==
    MonStep(setAuto([MonCur EXCEPT !.autoChecked = ~autoChecked], ~autoChecked))

\* a live interval fires its callback
Tick(t) == t \in timers /\ MonStep(loadMonitoringData(MonCur, "tick"))

\* Promise.all settles: with both answers, or with the first failure
HistoryResponse(r, okStatus, okCommands) ==
    /\ r \in BagToSet(loads)
    /\ MonStep(loadMonitoringDataDone(
                   [MonCur EXCEPT !.loads = @ (-) SetToBag({r})],
                   r, okStatus, okCommands))

NextMon ==
    \/ \E ok \in BOOLEAN : MonListResponse(ok)
    \/ \E id \in Ids : MonClickDevice(id)
    \/ MonClickRefresh
    \/ \E n \in Limits : ClickLimit(n)
    \/ ChangeAuto
    \/ \E t \in timers : Tick(t)
    \/ \E r \in BagToSet(loads), okStatus \in BOOLEAN, okCommands \in BOOLEAN :
           HistoryResponse(r, okStatus, okCommands)

SpecMon == InitMon /\ [][NextMon]_vars

(* The page with every text the inputs can hold: the same handlers, driven
   through the device form and the chips up to the requests they send, with
   the texts drawn from all the kinds Number() tells apart.  What happens
   when the answers to these requests arrive is Spec's. *)

AllSteps == {"0.001", "-1", "", "abc"}

AllNumbers == {"", "10.5", "-1", "abc", "Infinity"}

AllPorts == {"", "0", "1", "80.5", "4001", "65535", "65535.5", "65536", "-1",
             "abc", "Infinity"}

AllForms == {Form(name, host, port, enabled) :
                 name \in {"", " ", "hrog"}, host \in {"", " ", "moxa"},
                 port \in AllPorts, enabled \in BOOLEAN}

NextTyped ==
    \/ \E id \in Ids : ClickDevice(id)
    \/ \E code \in StepCommands, step \in AllSteps : ClickStepChip(code, step)
    \/ \E code \in SetCommands, raw \in AllNumbers : ClickSetChip(code, raw)
    \/ ClickDeviceAdd
    \/ ClickDeviceEdit
    \/ CloseDeviceModal
    \/ \E form \in AllForms : SubmitDeviceForm(form)
    \/ \E r \in InFlight, ok \in BOOLEAN : LoadResponse(r, ok)

SpecTyped == Init /\ [][NextTyped]_vars

(* ------------------------------ claims --------------------------------- *)

\* the requests this step sends
Sent == inflight' (-) inflight

GetStatusRequest(id, caller) == Request("EXEC", "GET_STATUS", id, FALSE, caller, Null)

IsGetStatus(r) == r.kind = "EXEC" /\ r.code = "GET_STATUS"

SelectedEnabled == selectedId \in Ids /\ devices[selectedId] = "on"

\* C1: the answer to a GET_STATUS sent to device A, arriving while another
\* device B is selected, changes neither the displayed status nor the
\* connection indicator.
C1_StaleAnswerDropped ==
    [][\A r \in InFlight, ok \in BOOLEAN :
          (GetStatusResponse(r, ok) /\ selectedId \in Ids /\ selectedId # r.id)
              => (statusView' = statusView /\ conn' = conn)]_vars

\* C2: no request to the execute endpoint is in flight with a null
\* device_id: runCommand with no selection fails before the network call.
C2_NoCommandWithoutSelection ==
    \A r \in InFlight : r.kind = "EXEC" => r.id # Null

\* runCommand threw for want of a selection and the handler logged it
C2_Witness ==
    selectedId = Null /\ lastCommand = "notSelected" /\ ctrlEnabled

\* C3: every request sent to the execute endpoint names a device that, when
\* it is sent, is in the cache with is_enabled true.
C3_DispatchToEnabledCachedDevice ==
    [][\A r \in BagToSet(Sent) :
          r.kind = "EXEC" => (r.id \in Ids /\ devices'[r.id] = "on")]_vars

\* C4: whenever a command control or the refresh button is enabled, the
\* selected device is in the cache with is_enabled true.
C4_ControlsGated ==
    (ctrlEnabled \/ refreshEnabled) => SelectedEnabled

\* C5: selecting a disabled device sends nothing, clears the status view and
\* sets the connection state to bad, and the state stays bad while that
\* device stays selected and disabled.
C5_DisabledSelectionStaysBad ==
    [][/\ \A id \in Ids :
            (ClickDevice(id) /\ devices[id] = "off")
                => (inflight' = inflight /\ statusView' = Null /\ conn'.dot = "bad")
       /\ (/\ selectedId \in Ids /\ devices[selectedId] = "off" /\ conn.dot = "bad"
           /\ selectedId' = selectedId /\ devices'[selectedId] = "off")
              => conn'.dot = "bad"]_vars

\* a step in which selectDevice is called: a click in the list, or the end
\* of a form submit (create, edit) once its reload is in
SelectDeviceCalled ==
    \/ \E id \in Ids : ClickDevice(id)
    \/ \E r \in InFlight :
          /\ ListResponse(r, TRUE)
          /\ r.caller \in {"create", "edit"}
          /\ selectedId' # Null

\* C6: each call of selectDevice(id) for a cached, enabled device sends
\* exactly one request, a GET_STATUS with device_id = id.
C6_SelectSendsOneGetStatus ==
    [][(SelectDeviceCalled /\ selectedId' \in Ids /\ devices'[selectedId'] = "on")
          => Sent = SetToBag({GetStatusRequest(selectedId', "selectDevice")})]_vars

\* an enabled device was just selected and its GET_STATUS is in flight
C6_Witness ==
    /\ SelectedEnabled
    /\ ctrlEnabled
    /\ conn.text = "updating"
    /\ GetStatusRequest(selectedId, "selectDevice") \in InFlight

\* C7: when the reload started by a successful delete completes, the deleted
\* device is not the selected one (the least the claim asks: it asks for
\* selectedId = null there, and for the deleted id never to be selected again).
C7_DeletedNotSelected ==
    [][\A r \in InFlight :
          (ListResponse(r, TRUE) /\ r.caller = "onDeviceDelete")
              => selectedId' # r.id]_vars

\* C8 as claimed: a successful mutating command is followed by a GET_STATUS
\* to the device the command was sent to.
C8_RefreshSameDevice ==
    [][\A r \in InFlight :
          CommandResponse(r, TRUE)
              => Sent = SetToBag({GetStatusRequest(r.id, r.caller)})]_vars

\* C8 amended: a successful mutating command is followed by refreshStatus,
\* which sends one GET_STATUS to the device selected at that moment if that
\* device is cached and enabled, and sends nothing otherwise.
C8_RefreshSelectedDevice ==
    [][\A r \in InFlight :
          CommandResponse(r, TRUE)
              => Sent = IF SelectedEnabled
                        THEN SetToBag({GetStatusRequest(selectedId, r.caller)})
                        ELSE EmptyBag]_vars

\* the follow-up GET_STATUS of a command handler is in flight
C8_Witness ==
    \E r \in InFlight :
        /\ IsGetStatus(r)
        /\ r.caller \in {"quick", "chip", "button"}
        /\ r.id = selectedId
        /\ lastCommand = "response"

\* C9: errorsCount decreases in no step but the one in which the initial
\* loadDevices succeeds, which sets it to 0.
C9_ErrorsCountMonotone ==
    [][errorsCount' < errorsCount
          => (errorsCount' = 0 /\ \E r \in InFlight : LoadResponse(r, TRUE))]_vars

\* errors were counted while the initial list request is still in flight
C9_Witness ==
    /\ errorsCount > 0
    /\ \E r \in InFlight : r.kind = "LIST" /\ r.caller = "loadDevices"

\* a call that failed: the answer of any request with ok = FALSE
Failed(r) ==
    \/ GetStatusResponse(r, FALSE)
    \/ CommandResponse(r, FALSE)
    \/ DeleteResponse(r, FALSE)
    \/ CreateResponse(r, FALSE)
    \/ UpdateResponse(r, FALSE)
    \/ ListResponse(r, FALSE)
    \/ LoadResponse(r, FALSE)

\* C10: every failed call to the execute endpoint or to the device registry
\* adds exactly one to errorsCount.
C10_EveryFailureCounted ==
    [][\A r \in InFlight : Failed(r) => errorsCount' = errorsCount + 1]_vars


\* C11: a GET_STATUS that fails after its device is no longer selected adds
\* nothing to errorsCount and changes neither the connection indicator nor
\* the last-command log.
C11_StaleFailureIgnored ==
    [][\A r \in InFlight :
          (GetStatusResponse(r, FALSE) /\ selectedId # r.id)
              => (errorsCount' = errorsCount /\ conn' = conn
                     /\ lastCommand' = lastCommand)]_vars


\* the form as the claim reads it: the name or the host is empty, or the
\* port is a number outside [1, 65535]
OutOfRange(form) ==
    \/ trim(form.name) = ""
    \/ trim(form.host) = ""
    \/ lessThan(Number(form.port), 1)
    \/ greaterThan(Number(form.port), 65535)

\* C12: submitting the device form, in create or in edit mode, with an
\* empty name, an empty host or a port outside [1, 65535] sends no request
\* and leaves the device cache, selectedId and errorsCount unchanged.
C12_InvalidFormSendsNothing ==
    [][\/ /\ inflight' = inflight /\ sent' = sent /\ devices' = devices
          /\ selectedId' = selectedId /\ errorsCount' = errorsCount
       \/ \A form \in AllForms :
              ~(OutOfRange(form) /\ SubmitDeviceForm(form))]_vars

\* the form was refused without a request: the box shows the error over the
\* open form, in either mode, and only the first GET_STATUS has been sent
C12_Witness ==
    /\ modalOpen /\ formError /\ deviceModalMode = "edit"
    /\ \A r \in InFlight : IsGetStatus(r)


\* the port is a number inside [1, 65535] that is not an integer
FractionalPort(form) ==
    LET port == Number(form.port)
    IN  /\ isFinite(port) /\ port.frac
        /\ ~lessThan(port, 1) /\ ~greaterThan(port, 65535)

\* C13: a port that is a number inside [1, 65535] but not an integer fails
\* validation before any network call.
C13_FractionalPortRefused ==
    [][\/ inflight' = inflight /\ sent' = sent
       \/ \A form \in AllForms :
              ~(FractionalPort(form) /\ SubmitDeviceForm(form))]_vars


\* C14: no set or step command is ever sent with a non-finite numeric
\* parameter, whether it comes from doSet or from doStep, the chips whose
\* step is read from a data attribute included.
C14_NoNonFiniteParameter ==
    [][\A r \in BagToSet(Sent) :
          (r.kind = "EXEC" /\ r.code \in SetCommands \cup StepCommands)
              => isFinite(r.num)]_vars


\* C15: anySreError is true exactly when at least one of the six flags of
\* the register is true; it is false for null and when all six are false.
C15_AnySreErrorIffSomeFlag ==
    monSre.shown =>
        (monSre.sreBad <=> /\ data.status_register.present
                           /\ \E f \in Flags : data.status_register.flags[f] = "true")

\* a row was rendered whose only raised flag is invalid_command
C15_Witness ==
    /\ monSre.shown /\ monSre.sreBad
    /\ \A f \in Flags :
           data.status_register.flags[f] = "true" <=> f = "invalid_command"

\* C16: a payload whose status_register is null or missing is shown as
\* unknown, never as OK, by the control panel's badge and by the register
\* column of the monitoring table.
C16_NoRegisterShownUnknown ==
    ~data.status_register.present =>
        /\ stSre.shown => stSre.text = Unknown
        /\ monSre.shown => monSre.text = Unknown


\* the loads this step starts
Started == BagToSet(loads' (-) loads)

\* C17: once auto-refresh is stopped, no scheduled tick starts a load: until
\* it is started again, every load that starts comes from a manual refresh,
\* a selection or a change of the limit.
C17_NoTickAfterStop ==
    [][autoTimer = Null => \A r \in Started : r.by # "tick"]_vars

\* auto-refresh was stopped while a load of one of its ticks was awaited,
\* and a manual refresh has started a load since
C17_Witness ==
    /\ autoTimer = Null /\ ~autoChecked
    /\ \E r \in BagToSet(loads) : r.by = "tick"
    /\ \E r \in BagToSet(loads) : r.by = "refresh"

\* C18: when selectDevice(id) changes the selection, the auto-refresh timer
\* is stopped: no interval is live until the operator starts it again.
C18_SelectionStopsAuto ==
    [][\A id \in Ids :
          (MonClickDevice(id) /\ id # monSelectedId)
              => (autoTimer' = Null /\ timers' = {})]_vars

\* C19: stopping auto-refresh is idempotent: setAuto(false) leaves no timer
\* active, a second setAuto(false) on its result changes nothing, and with
\* no timer active it changes nothing but the box that was unchecked.
C19_StopIdempotent ==
    [][(ChangeAuto /\ autoChecked)
          => /\ autoTimer' = Null /\ timers' = {}
             /\ setAuto(MonCur', FALSE) = MonCur'
             /\ autoTimer = Null =>
                    MonCur' = [MonCur EXCEPT !.autoChecked = FALSE]]_vars

\* the box was unchecked after an interval had run and its load had failed
C19_Witness ==
    /\ ~autoChecked /\ autoTimer = Null /\ timers = {}
    /\ detail = "autoError"

\* C20: the failure of a load that a tick started does not stop the
\* scheduler: the interval stays live, so that the next tick starts a load.
C20_FailedTickKeepsTimer ==
    [][\A r \in BagToSet(loads), okStatus \in BOOLEAN, okCommands \in BOOLEAN :
          (HistoryResponse(r, okStatus, okCommands) /\ r.by = "tick"
              /\ ~(okStatus /\ okCommands))
              => /\ autoTimer' = autoTimer /\ timers' = timers
                 /\ autoTimer # Null => autoTimer' \in timers']_vars

\* a tick's load has failed, the interval is live and a later tick has
\* started the next load
C20_Witness ==
    /\ detail = "autoError"
    /\ autoTimer # Null /\ autoTimer \in timers
    /\ \E r \in BagToSet(loads) : r.by = "tick"


\* the GET_STATUS requests in flight that the refresh trigger started
RefreshInitiated == {r \in InFlight : IsGetStatus(r) /\ r.caller = "refresh"}

\* C21: the manual refresh is serialized: while a GET_STATUS that
\* refreshStatus sent is in flight the refresh trigger stays disabled, so at
\* most one GET_STATUS started by the trigger is in flight at any time.
C21_RefreshSerialized ==
    /\ (\E r \in InFlight : IsGetStatus(r)) => ~refreshEnabled
    /\ \A r \in RefreshInitiated : CopiesIn(r, inflight) = 1
    /\ Cardinality(RefreshInitiated) <= 1


\* C22: every failure of a command-execution call or of a device-registry
\* call is caught by the handler that issued it: no operation the UI
\* triggers ends with an uncaught error.
C22_EveryFailureCaught == ~uncaught


\* the page when the reload of an edit is in, before the handler goes on to
\* "if (selectedId) await selectDevice(selectedId)"
Reloaded(r) == reloadDevicesDone(received(Cur, r), r, TRUE)

\* the step calls selectDevice with an id that is not in the cache: the
\* selection had moved to a device that the fresh list no longer holds
SelectsUncached(r) ==
    /\ ListResponse(r, TRUE) /\ r.caller = "edit"
    /\ Reloaded(r).selectedId # Null
    /\ ~cached(Reloaded(r), Reloaded(r).selectedId)

C24_SelectionInFreshList ==
    [][\A r \in InFlight :
          ListResponse(r, TRUE)
              => /\ selectedId' = Null \/ devices'[selectedId'] # "none"
                 /\ (selectedId # Null /\ listing(server)[selectedId] = "none")
                        => (selectedId' = Null /\ statusView' = Null
                               /\ ~ctrlEnabled')]_vars


\* C25: once a successful delete has deselected the active device, its last
\* status is discarded and stays so: while selectedId is null the status
\* view shows no device data, also when a GET_STATUS sent before the delete
\* is answered after it.
C25_NoStatusWhileUnselected == selectedId = Null => statusView = Null

\* C26: an execute call that fails in transport (network error, non-2xx
\* status, or a body that does not parse) is handled as an error: the log
\* shows the error, and the answer of a GET_STATUS leaves the connection
\* reported as bad, never as OK
TransportFailure(resp) == resp.rejects \/ ~resp.ok \/ ~resp.parses

C26_TransportFailureFails ==
    [][\A r \in InFlight, resp \in Responses :
          (TransportFailure(resp) /\ ExecuteAnswer(r, resp))
              => /\ lastCommand' = "error"
                 /\ IsGetStatus(r) => conn'.dot = "bad"]_vars

\* C27: each numeric field of the payload (temperature, freq, phase, ffof,
\* time_offset_ns and the four readings of the PLL block) that is null or
\* missing is shown as the unknown marker with no unit, never as 0; a
\* value that is present, 0 included, is shown as that value with its unit.
Reading(f) == IF f \in Fields THEN data[f] ELSE data.pll.readings[f]

Shown(f) == IF f \in Fields THEN stFields.texts[f] ELSE stFields.pll.texts[f]

C27_NullUnknownValueWithUnit ==
    stFields.shown =>
        \A f \in Fields \cup PllFields :
            /\ Reading(f) = "null" => Shown(f) = Text(Unknown, "")
            /\ Reading(f) # "null" => Shown(f) = Text(Reading(f), Suffix[f])

\* a payload was shown that holds zeros, missing fields and other values,
\* in the PLL block too
C27_Witness ==
    /\ stFields.shown
    /\ data.temperature = "0" /\ data.freq = "null" /\ data.phase = "25.5"
    /\ data.pll.present
    /\ data.pll.readings["osc_dbm"] = "0" /\ data.pll.readings["lock_v"] = "null"

\* C28: a payload without a PLL block is shown as "no PLL data", which
\* differs from what a PLL block with four zero readings is shown as.
C28_NoPllDistinctFromZeros ==
    stFields.shown =>
        /\ ~data.pll.present
               => /\ stFields.pll.badge = "no data"
                  /\ stFields.pll # pllUI(ZeroPll)
        /\ data.pll = ZeroPll
               => /\ stFields.pll.badge # "no data"
                  /\ stFields.pll # pllUI(NullPll)

\* a payload without a PLL block was shown
C28_Witness == stFields.shown /\ ~data.pll.present /\ data.temperature = "0"

\* C29: when the initial load of the device list fails the error is shown,
\* the cache is empty and nothing is selected; from that state no mutating
\* request (command execution, device create, update or delete) is sent.
Degraded ==
    /\ conn.dot = "bad"
    /\ \A i \in Ids : devices[i] = "none"
    /\ selectedId = Null

C29_LoadFailureLeavesDegraded ==
    [][\A r \in InFlight : LoadResponse(r, FALSE) => Degraded']_vars

C29_DegradedReadOnly ==
    /\ C29_LoadFailureLeavesDegraded
    /\ [][Degraded => \A r \in BagToSet(Sent) :
                          r.kind \notin {"EXEC", "CREATE", "UPDATE", "DELETE"}]_vars

\* the interval is live: its callback can run in this state
TickDue == autoTimer # Null /\ autoTimer \in timers

\* the loads awaited once the interval's callback has run in this state
AfterTick == loadMonitoringData(MonCur, "tick").loads

\* C30: while auto-refresh is active and a device is selected, each tick of
\* the interval starts a new load for that device, whatever loads of
\* earlier ticks or of a manual refresh are still awaited; two or more
\* loads can be in flight at once.
C30_TickLoadsWhateverInFlight ==
    (TickDue /\ monSelectedId # Null)
        => AfterTick = loads (+) SetToBag({Load(monSelectedId, limit, "tick")})

\* auto-refresh is active and the loads of two ticks are awaited at once
C30_Witness ==
    /\ TickDue
    /\ \E r \in BagToSet(loads) : r.by = "tick" /\ CopiesIn(r, loads) = 2

\* C30 as stated, for every tick: a tick while auto-refresh is active
\* starts a load
C30_EveryTickLoads ==
    TickDue => BagCardinality(AfterTick) = BagCardinality(loads) + 1

\* C31: a successful edit is followed by a full reload of the list; when
\* the device edited was the one selected (as the edit succeeded and as the
\* list arrives) and the fresh list holds it, the selection is kept and the
\* device is selected again against the fresh record: disabled, the
\* controls are disabled, the connection is bad and no GET_STATUS is sent;
\* enabled, it is polled.
EditReload(r) == r.kind = "LIST" /\ r.caller = "edit"

\* the reload that followed the edit of the selected device
EditedSelected(r) == EditReload(r) /\ r.prev = r.id /\ selectedId = r.id

C31_EditReselects ==
    [][\A r \in InFlight :
          /\ UpdateResponse(r, TRUE)
                 => \E q \in BagToSet(Sent) : EditReload(q) /\ q.prev = selectedId
          /\ (ListResponse(r, TRUE) /\ EditedSelected(r)
                 /\ listing(server)[r.id] # "none")
                 => /\ selectedId' = selectedId
                    /\ devices' = listing(server)
                    /\ listing(server)[r.id] = "off"
                           => (~ctrlEnabled' /\ conn'.dot = "bad"
                                  /\ statusView' = Null /\ Sent = EmptyBag)
                    /\ listing(server)[r.id] = "on"
                           => (ctrlEnabled'
                                  /\ Sent = SetToBag({GetStatusRequest(r.id, "selectDevice")}))]_vars

\* device 1, which the service held enabled at the start, was edited to
\* disabled while selected; the reload is in and it is shown as disabled
C31_Witness ==
    /\ selectedId = 1 /\ server[1] = "off" /\ devices[1] = "off"
    /\ ~ctrlEnabled /\ conn.dot = "bad" /\ statusView = Null
    /\ ~modalOpen /\ inflight = EmptyBag

\* C32: the answer or the failure of a GET_STATUS sent to a device sets the
\* poll-health flag of that device only: the flag of every other key, the
\* null key included, is left as it was, whatever the selection is when
\* the answer is in.
C32_PollFlagOfPolledDevice ==
    [][\A r \in InFlight, ok \in BOOLEAN :
          GetStatusResponse(r, ok)
              => \A k \in DOMAIN lastPollOkById :
                     k # r.id => lastPollOkById'[k] = lastPollOkById[k]]_vars

\* C33: once DELETE has succeeded, onDeviceDelete finishes with the deleted
\* device out of the cache and without reporting a delete error, also when
\* the list request that follows the delete fails.
DeleteReload(r) == r.kind = "LIST" /\ r.caller = "onDeviceDelete"

C33_DeletedLeavesCache ==
    [][\A r \in InFlight, ok \in BOOLEAN :
          (ListResponse(r, ok) /\ DeleteReload(r))
              => /\ devices'[r.id] = "none"
                 /\ errorsCount' = errorsCount
                 /\ lastCommand' = lastCommand]_vars

\* C34: when the DELETE of the selected device fails, the cache and
\* selectedId are left as they were, errorsCount grows by exactly one and
\* the connection is set to bad.
C34_FailedDeleteCounted ==
    [][\A r \in InFlight :
          DeleteResponse(r, FALSE)
              => /\ devices' = devices /\ selectedId' = selectedId
                 /\ errorsCount' = errorsCount + 1
                 /\ conn'.dot = "bad"]_vars

\* the DELETE of the selected device has failed: the device is still
\* cached, selected and held by the service, no poll of it has failed
C34_Witness ==
    /\ selectedId \in Ids /\ devices[selectedId] = "on"
    /\ server[selectedId] = "on"
    /\ errorsCount = 1 /\ conn.dot = "bad" /\ lastCommand = "error"
    /\ \A k \in DOMAIN lastPollOkById : lastPollOkById[k]
    /\ inflight = EmptyBag

\* C35: a GET_STATUS that fails while the device it was sent to is still
\* selected adds exactly one to errorsCount, sets the connection to bad,
\* marks the device's poll-health flag false and leaves the status values
\* on display as they were.
C35_FailedPollKeepsView ==
    [][\A r \in InFlight :
          (GetStatusResponse(r, FALSE) /\ selectedId = r.id)
              => /\ errorsCount' = errorsCount + 1
                 /\ conn'.dot = "bad"
                 /\ ~lastPollOkById'[r.id]
                 /\ statusView' = statusView]_vars

\* the status of the selected device is on display and its last poll failed
C35_Witness ==
    /\ selectedId \in Ids /\ statusView = selectedId
    /\ ~lastPollOkById[selectedId]
    /\ errorsCount = 1 /\ conn.dot = "bad" /\ lastCommand = "error"
    /\ inflight = EmptyBag

\* C36: at most one interval of the auto-refresh is live at any time, the
\* one autoTimer names; after a call of setAuto, whatever calls came before
\* it, an interval is live exactly when the call was setAuto(true), and
\* every interval registered earlier has been cleared.
AfterSetAuto(on) == setAuto(MonCur, on)

C36_OneTimer ==
    /\ timers = (IF autoTimer = Null THEN {} ELSE {autoTimer})
    /\ \A on \in BOOLEAN :
           /\ AfterSetAuto(on).autoTimer # Null <=> on
           /\ AfterSetAuto(on).timers =
                  (IF on THEN {AfterSetAuto(on).autoTimer} ELSE {})

\* auto-refresh is on, one interval is live and the load of one of its
\* ticks is awaited next to tables an earlier load has filled
C36_Witness ==
    /\ autoChecked /\ autoTimer # Null /\ timers = {autoTimer}
    /\ tables.device # Null
    /\ \E r \in BagToSet(loads) : r.by = "tick" /\ CopiesIn(r, loads) = 1

\* C37: a load started for an earlier selection or an earlier limit that
\* resolves later does not replace the tables: once every load is in, the
\* tables show rows asked for the selected device with the current limit.
Stale(r) == r.device # monSelectedId \/ r.limit # limit

\* the tables show the rows of the selected device with the current limit
TablesCurrent == tables = [device |-> monSelectedId, limit |-> limit]

C37_StaleLoadIgnored ==
    [][\A r \in BagToSet(loads) :
          (HistoryResponse(r, TRUE, TRUE) /\ Stale(r) /\ TablesCurrent)
              => TablesCurrent']_vars

\* C38: loadMonitoringData renders both tables and the timestamp, or none
\* of them: when one of its two fetches fails nothing of what they show
\* changes; with no device selected a call, a tick's included, sends
\* nothing.
Resolved(r, okStatus, okCommands) ==
    loadMonitoringDataDone([MonCur EXCEPT !.loads = @ (-) SetToBag({r})],
                           r, okStatus, okCommands)

C38_BothTablesOrNone ==
    /\ \A r \in BagToSet(loads), okStatus \in BOOLEAN, okCommands \in BOOLEAN :
           /\ ~(okStatus /\ okCommands)
                  => Resolved(r, okStatus, okCommands).tables = tables
           /\ (okStatus /\ okCommands)
                  => Resolved(r, okStatus, okCommands).tables
                         = [device |-> r.device, limit |-> r.limit]
    /\ monSelectedId = Null
           => \A by \in {"select", "refresh", "limit", "tick"} :
                  loadMonitoringData(MonCur, by).loads = loads

\* the limit was changed and the load that followed has failed: the tables
\* still show the rows of the earlier limit
C38_Witness ==
    /\ detail = "error" /\ loads = EmptyBag
    /\ monSelectedId # Null /\ tables.device = monSelectedId
    /\ tables.limit # limit

\* C39: with every request resolved or failed in the end, a refreshStatus
\* that disabled the refresh button is followed by the button enabled
\* again, and the connection does not stay at "updating": with no
\* GET_STATUS in flight it never reads so.
Polling == \E r \in InFlight : IsGetStatus(r)

C39_RefreshSettles ==
    /\ [](~Polling => conn.text # "updating")
    /\ (Polling /\ ~refreshEnabled) ~> refreshEnabled
    /\ (conn.text = "updating") ~> (conn.dot \in {"ok", "bad"})

\* a refresh started by the button has been answered: the button is
\* enabled and the connection reads OK or bad, nothing is in flight
C39_Witness ==
    /\ refreshEnabled /\ conn.text \in {"updated", "error"}
    /\ conn.dot \in {"ok", "bad"}
    /\ selectedId \in Ids /\ sent >= 3 /\ inflight = EmptyBag

=============================================================================
